---- MODULE Spec2Model ----
(***************************************************************************)
(* OpenVault memory retrieval (src/src/retrieval/retrieve.js).             *)
(*                                                                         *)
(* The two entry points, retrieveAndInjectContext and updateInjection,     *)
(* are async functions: each runs synchronously up to its single await     *)
(* (the relevance selector) and, once the selector settles, synchronously  *)
(* to its end.  A call is therefore two steps: <kind>Start and <kind>Resume.*)
(* The session (settings, chat, store, POV) belongs to the host and is     *)
(* changed by the environment actions.                                     *)
(***************************************************************************)
EXTENDS Integers, Sequences, FiniteSets, TLC

VARIABLES
    settings,       \* extension_settings[extensionName]: enabled, automaticMode
    chatLen,        \* context.chat.length (0: chat missing or empty)
    storeAvail,     \* getOpenVaultData() returns the store (TRUE) or null (FALSE)
    memories,       \* data[MEMORIES_KEY]: sequence of memory records
    known,          \* data[CHARACTERS_KEY][name].known_events, per character with a state
    lastBatchId,    \* data[LAST_BATCH_KEY]: None or Some(batch id)
    povCharacters,  \* getPOVContext().povCharacters
    isGroupChat,    \* getPOVContext().isGroupChat
    status,         \* the status observable written by setStatus
    injected,       \* the text held by the injection sink (extension prompt)
    calls           \* the calls of the two entry points, by call id

vars == <<settings, chatLen, storeAvail, memories, known, lastBatchId,
          povCharacters, isGroupChat, status, injected, calls>>

session == <<settings, chatLen, storeAvail, memories, known, lastBatchId,
             povCharacters, isGroupChat>>

----------------------------------------------------------------------------
(* Bounds of the model *)

MaxMem == 2         \* memories the store holds at most
MaxOlder == 2       \* chat messages older than the recency window, at most
MaxKnown == 1       \* known_events entries disclosed, over all characters, at most

----------------------------------------------------------------------------
(* Optional values: a field that may be undefined is None or Some(v) *)

None == <<>>
Some(v) == <<v>>
IsSome(o) == Len(o) > 0
Val(o) == o[1]

Range(s) == {s[i] : i \in 1..Len(s)}

----------------------------------------------------------------------------
(* Names, and String.prototype.toLowerCase on them *)

\* (the bug of comparing names as they are written)
toLowerCaseKeepsCase(s) == s

toLowerCase(s) ==
    CASE s = "Alice" -> "alice"
      [] s = "ALICE" -> "alice"
      [] s = "alice" -> "alice"
      [] s = "Bob"   -> "bob"
      [] s = "BOB"   -> "bob"
      [] s = "bob"   -> "bob"
      [] OTHER       -> s

\* Array.prototype.includes
includes(arr, x) == \E i \in 1..Len(arr) : arr[i] = x

----------------------------------------------------------------------------
(* The session the host supplies *)

Memory(id, w, ci, secret, mids, batch) ==
    [id |-> id, witnesses |-> w, characters_involved |-> ci,
     is_secret |-> secret, message_ids |-> mids, batch_id |-> batch]

\* The memories extraction can add to the store.
MemoryPool ==
    { Memory("m1", Some(<<"alice">>), Some(<<"Alice", "Bob">>), FALSE, Some(<<0, 1>>), Some("b1")),
      Memory("m2", Some(<<>>),        Some(<<"bob">>),          TRUE,  Some(<<2, 3>>), Some("b1")),
      Memory("m3", None,              Some(<<"ALICE">>),        FALSE, None,           Some("b2")),
      Memory("m4", Some(<<"Bob">>),   None,                     TRUE,  Some(<<>>),     None) }

MemoryIds == {m.id : m \in MemoryPool}

\* The characters data[CHARACTERS_KEY] holds a state for.
CharacterKeys == {"Alice", "Bob"}

\* data[CHARACTERS_KEY][name].current_emotion (None: no emotion recorded)
current_emotion(name) == IF name = "Alice" THEN Some("happy") ELSE None

\* What getPOVContext() can return.
POVLists == { <<"Alice">>, <<"Bob">>, <<"Alice", "Bob">> }

name2 == "Alice"    \* context.name2

\* The chat lengths of the model: no chat, or a chat that fills the recency
\* window and holds up to MaxOlder older messages.
RecentWindow == 10

ChatLens == {0} \cup {RecentWindow + k : k \in 0..MaxOlder}

KnownCount == Cardinality({<<ch, id>> \in CharacterKeys \X MemoryIds : id \in known[ch]})

----------------------------------------------------------------------------
(* A call of an entry point, and what it did *)

CallIds == {"A", "B"}

IdleCall ==
    [pc                 |-> "idle",     \* idle | selecting | returned | threw
     kind               |-> "none",     \* retrieve | update
     recentMessages     |-> None,       \* the text handed to the selector
     accessibleMemories |-> <<>>,
     nonRecentMemories  |-> <<>>,
     nonBatchMemories   |-> <<>>,
     memoriesToUse      |-> <<>>,
     primaryCharacter   |-> None,
     isGroupChat        |-> FALSE,      \* the mode getPOVContext() gave the call
     selectCalls        |-> 0,          \* invocations of selectRelevantMemories
     relevantMemories   |-> None,       \* what the selector resolved to
     formatArgs         |-> None,       \* arguments of formatContextForInjection
     formattedContext   |-> None,       \* what the formatter returned
     sinkWrites         |-> <<>>,       \* texts passed to safeSetExtensionPrompt
     toasts             |-> 0,          \* invocations of showToast
     statusWrites       |-> <<>>,       \* values passed to setStatus
     exception          |-> None,       \* Some(stage) that threw during the call
     result             |-> None]       \* Some(value) the promise resolved to

\* What a call's promise resolves to.
ResultNull == [tag |-> "null", memories |-> <<>>, context |-> ""]
ResultUndefined == [tag |-> "undefined", memories |-> <<>>, context |-> ""]
\* (the bug of a result that drops the formatted text)
ResultValueWithoutContext(ms, ctx) == [tag |-> "value", memories |-> ms, context |-> ""]

\* return { memories: relevantMemories, context: formattedContext }
ResultValue(ms, ctx) == [tag |-> "value", memories |-> ms, context |-> ctx]

AllIdle == \A c \in CallIds : calls[c].pc = "idle"

----------------------------------------------------------------------------
(* The filters both entry points apply *)

\* "Collect known events from all POV characters": a POV name with no
\* character state under that very key contributes nothing.
knownEventIds(pov, knownEvents) ==
    UNION { IF ch \in DOMAIN knownEvents THEN knownEvents[ch] ELSE {} : ch \in Range(pov) }

povCharactersLower(pov) == [i \in 1..Len(pov) |-> toLowerCase(pov[i])]

\* The predicate of memories.filter(...): m.witnesses?.some(...) and
\* m.characters_involved?.some(...) are falsy when the field is undefined.
witnessedByPOV(m, povLower) ==
    IsSome(m.witnesses) /\ \E i \in 1..Len(Val(m.witnesses)) :
        includes(povLower, toLowerCase(Val(m.witnesses)[i]))

involvesPOV(m, povLower) ==
    IsSome(m.characters_involved) /\ \E i \in 1..Len(Val(m.characters_involved)) :
        includes(povLower, toLowerCase(Val(m.characters_involved)[i]))

\* (the bug of letting involvement show a secret memory)
isAccessibleIgnoringSecrecy(m, povLower, knownIds) ==
    witnessedByPOV(m, povLower) \/ involvesPOV(m, povLower) \/ m.id \in knownIds

isAccessible(m, povLower, knownIds) ==
    IF witnessedByPOV(m, povLower) THEN TRUE
    ELSE IF ~m.is_secret /\ involvesPOV(m, povLower) THEN TRUE
    ELSE IF m.id \in knownIds THEN TRUE
    ELSE FALSE

accessibleMemories(mems, pov, knownEvents) ==
    LET keep(m) == isAccessible(m, povCharactersLower(pov), knownEventIds(pov, knownEvents))
    IN  SelectSeq(mems, keep)

\* context.chat.map((m, idx) => idx).slice(-10)
recentMessageIds(len) == {i \in 0..(len - 1) : i >= len - RecentWindow}

\* (the bug of dropping a memory with one recent source)
isNonRecentSomeSource(m, recentIds) ==
    IF ~IsSome(m.message_ids) \/ Len(Val(m.message_ids)) = 0 THEN TRUE
    ELSE ~(\E i \in 1..Len(Val(m.message_ids)) : Val(m.message_ids)[i] \in recentIds)

isNonRecent(m, recentIds) ==
    IF ~IsSome(m.message_ids) \/ Len(Val(m.message_ids)) = 0 THEN TRUE
    ELSE IF \A i \in 1..Len(Val(m.message_ids)) : Val(m.message_ids)[i] \in recentIds THEN FALSE
    ELSE TRUE

nonRecentMemories(accessible, len) ==
    LET keep(m) == isNonRecent(m, recentMessageIds(len))
    IN  SelectSeq(accessible, keep)

\* (the bug of comparing with a lastBatchId that is not set)
isLastBatchUnguarded(m, lastBatch) == m.batch_id = lastBatch

\* lastBatchId && m.batch_id === lastBatchId
isLastBatch(m, lastBatch) == IsSome(lastBatch) /\ m.batch_id = lastBatch

nonBatchMemories(nonRecent, lastBatch) ==
    LET keep(m) == ~isLastBatch(m, lastBatch)
    IN  SelectSeq(nonRecent, keep)

\* (the bug of a missing fallback)
memoriesToUseOnDemandNoFallback(mems, accessible) == accessible

\* (the bug of always taking the whole store)
memoriesToUseOnDemandAlwaysAll(mems, accessible) == mems

\* "If POV filtering is too strict, fall back to all memories"
memoriesToUseOnDemand(mems, accessible) ==
    IF Len(accessible) = 0 /\ Len(mems) > 0 THEN mems ELSE accessible

\* (the bug of always taking the whole store)
memoriesToUseAutomaticAlwaysAll(mems, nonBatch) == mems

\* (the bug of a missing fallback)
memoriesToUseAutomaticNoFallback(mems, nonBatch) == nonBatch

\* "Fallback to all memories if filters are too strict"
memoriesToUseAutomatic(mems, nonBatch) ==
    IF Len(nonBatch) = 0 /\ Len(mems) > 0 THEN mems ELSE nonBatch

\* (the bug of taking the first POV character in either mode)
primaryCharacterOfFirstPOV(pov, group) == pov[1]

\* isGroupChat ? povCharacters[0] : context.name2
primaryCharacterOf(pov, group) == IF group THEN pov[1] ELSE name2

headerNameOf(primary, group) == IF group THEN primary ELSE "Scene"

\* primaryCharState?.current_emotion || 'neutral'
emotionOf(primary) ==
    IF primary \in CharacterKeys /\ IsSome(current_emotion(primary))
    THEN Val(current_emotion(primary)) ELSE "neutral"

\* chat.filter(m => !m.is_system).map(m => m.mes).join('\n'), and the pending
\* user message updateInjection appends: the text is kept as the number of
\* chat messages it was built from and the pending message.
recentMessagesOf(len, pending) == [chat |-> len, pending |-> pending]

----------------------------------------------------------------------------
(* The collaborators: what they can answer *)

\* selectRelevantMemories settles to a rejection, to null, or to a list of
\* candidates (here a leading part of them, the empty list included).
Selections(candidates) ==
    {[kind |-> "reject", list |-> <<>>], [kind |-> "null", list |-> <<>>]}
    \cup {[kind |-> "list", list |-> SubSeq(candidates, 1, n)] : n \in 0..Len(candidates)}

\* (the bug of testing the selection for null only)
noRelevantMemoriesNullOnly(sel) == sel.kind = "null"

\* !relevantMemories || relevantMemories.length === 0
noRelevantMemories(sel) == sel.kind = "null" \/ Len(sel.list) = 0

\* formatContextForInjection throws, returns '' or returns a text.
Formats == {"throw", "empty", "text"}

formattedText(c) == IF c = "A" THEN "ctxA" ELSE "ctxB"

\* safeSetExtensionPrompt takes the text ("ok") or reports failure and leaves
\* the prompt alone ("refused"); it does not throw.
SinkOutcomes == {"ok", "refused"}

safeSetExtensionPrompt(text, outcome) == IF outcome = "ok" THEN text ELSE injected

\* (the bug of an injection that always clears)
injectContextAlwaysClears(contextText) == ""

\* injectContext(contextText): the text the sink is called with ('' clears)
injectContext(contextText) == IF contextText = "" THEN "" ELSE contextText

\* User messages not yet in the chat ('' when none is given).
PendingMessages == {"", "hello"}

----------------------------------------------------------------------------
(* retrieveAndInjectContext *)

\* (the bug of a try block that does not cover the stage)
retrievalErrorUncaught(k, stage) == [k EXCEPT !.pc = "threw", !.exception = Some(stage)]

\* (the bug of a catch block that leaves the status alone)
retrievalErrorKeepsStatus(k, stage) ==
    [k EXCEPT !.pc = "returned", !.exception = Some(stage), !.result = Some(ResultNull)]

\* (the bug of a catch block that reports 'ready')
retrievalErrorSetsReady(k, stage) ==
    [k EXCEPT !.pc = "returned", !.exception = Some(stage),
              !.statusWrites = Append(@, "ready"), !.result = Some(ResultNull)]

\* catch (error) { console.error(...); setStatus('error'); return null; }
retrievalError(k, stage) ==
    [k EXCEPT !.pc = "returned", !.exception = Some(stage),
              !.statusWrites = Append(@, "error"), !.result = Some(ResultNull)]

\* (the bug of retrieving while the extension is disabled)
nothingToRetrieveIgnoringEnabled(enabled, len, avail, mems) ==
    len = 0 \/ ~avail \/ Len(mems) = 0

\* The early returns of retrieveAndInjectContext: disabled, no chat, no store,
\* no memories.
nothingToRetrieve(enabled, len, avail, mems) ==
    ~enabled \/ len = 0 \/ ~avail \/ Len(mems) = 0

RetrieveStart(c, povThrows) ==
    LET k0  == [IdleCall EXCEPT !.kind = "retrieve"]
        acc == accessibleMemories(memories, povCharacters, known)
        use == memoriesToUseOnDemand(memories, acc)
        k1  == [k0 EXCEPT !.statusWrites = <<"retrieving">>]
        k2  == [k1 EXCEPT !.accessibleMemories = acc, !.memoriesToUse = use]
    IN  /\ calls[c].pc = "idle"
        /\ UNCHANGED <<session, injected>>
        /\ IF nothingToRetrieve(settings.enabled, chatLen, storeAvail, memories)
           THEN /\ UNCHANGED status
                /\ calls' = [calls EXCEPT ![c] =
                       [k0 EXCEPT !.pc = "returned", !.result = Some(ResultNull)]]
           ELSE IF povThrows
           THEN \* getActiveCharacters or getPOVContext throws: the catch block
                /\ status' = "error"
                /\ calls' = [calls EXCEPT ![c] = retrievalError(k1, "pov")]
           ELSE IF Len(use) = 0
           THEN /\ status' = "ready"
                /\ calls' = [calls EXCEPT ![c] =
                       [k2 EXCEPT !.pc = "returned", !.statusWrites = Append(@, "ready"),
                                  !.result = Some(ResultNull)]]
           ELSE /\ status' = "retrieving"
                /\ calls' = [calls EXCEPT ![c] =
                       [k2 EXCEPT !.pc = "selecting",
                                  !.primaryCharacter = Some(primaryCharacterOf(povCharacters, isGroupChat)),
                                  !.isGroupChat = isGroupChat,
                                  !.recentMessages = Some(recentMessagesOf(chatLen, "")),
                                  !.selectCalls = @ + 1]]

\* injectThrows: the injection block (injectContext, log, showToast) raises
\* after the sink was called.
RetrieveResume(c, sel, relThrows, fmt, sink, injectThrows) ==
    LET k       == calls[c]
        primary == Val(k.primaryCharacter)
        text    == IF fmt = "text" THEN formattedText(c) ELSE ""
        k1 == [k EXCEPT !.relevantMemories = Some(sel)]
        k2 == [k1 EXCEPT !.formatArgs = Some(
                  [memories |-> sel.list, relationshipFor |-> primary,
                   emotion |-> emotionOf(primary),
                   headerName |-> headerNameOf(primary, k.isGroupChat)])]
        k3 == [k2 EXCEPT !.formattedContext = Some(text)]
        k4 == [k3 EXCEPT !.sinkWrites = Append(@, injectContext(text))]
        k5 == [k4 EXCEPT !.toasts = @ + 1]
        ready(kk, r) == [kk EXCEPT !.pc = "returned", !.statusWrites = Append(@, "ready"),
                                   !.result = Some(r)]
    IN  /\ k.pc = "selecting"
        /\ k.kind = "retrieve"
        /\ UNCHANGED session
        /\ IF sel.kind = "reject"
           THEN /\ status' = "error"
                /\ UNCHANGED injected
                /\ calls' = [calls EXCEPT ![c] = retrievalError(k, "select")]
           ELSE IF noRelevantMemories(sel)
           THEN /\ status' = "ready"
                /\ UNCHANGED injected
                /\ calls' = [calls EXCEPT ![c] = ready(k1, ResultNull)]
           ELSE IF relThrows
           THEN /\ status' = "error"
                /\ UNCHANGED injected
                /\ calls' = [calls EXCEPT ![c] = retrievalError(k1, "relationship")]
           ELSE IF fmt = "throw"
           THEN /\ status' = "error"
                /\ UNCHANGED injected
                /\ calls' = [calls EXCEPT ![c] = retrievalError(k2, "format")]
           ELSE IF fmt = "empty"
           THEN /\ status' = "ready"
                /\ UNCHANGED injected
                /\ calls' = [calls EXCEPT ![c] = ready(k3, ResultValue(sel.list, text))]
           ELSE IF injectThrows
           THEN /\ status' = "error"
                /\ injected' = safeSetExtensionPrompt(injectContext(text), sink)
                /\ calls' = [calls EXCEPT ![c] = retrievalError(k4, "inject")]
           ELSE /\ status' = "ready"
                /\ injected' = safeSetExtensionPrompt(injectContext(text), sink)
                /\ calls' = [calls EXCEPT ![c] = ready(k5, ResultValue(sel.list, text))]

----------------------------------------------------------------------------
(* updateInjection: no try/catch, so what a collaborator throws rejects the
   promise the caller holds (pc = "threw") *)

\* An exception leaves updateInjection: the promise is rejected.
updateError(k, stage) == [k EXCEPT !.pc = "threw", !.exception = Some(stage)]

\* (the bug of notifying the user of a cleared injection)
clearAndReturnWithToast(k) ==
    [k EXCEPT !.pc = "returned", !.sinkWrites = Append(@, ""), !.toasts = @ + 1,
              !.result = Some(ResultUndefined)]

\* (the bug of returning without clearing the injection)
clearAndReturnWithoutClearing(k) ==
    [k EXCEPT !.pc = "returned", !.result = Some(ResultUndefined)]

\* safeSetExtensionPrompt(''); return;
clearAndReturn(k) ==
    [k EXCEPT !.pc = "returned", !.sinkWrites = Append(@, ""),
              !.result = Some(ResultUndefined)]

UpdateStart(c, pendingUserMessage, povThrows, sink) ==
    LET k0  == [IdleCall EXCEPT !.kind = "update"]
        acc == accessibleMemories(memories, povCharacters, known)
        nr  == nonRecentMemories(acc, chatLen)
        nb  == nonBatchMemories(nr, lastBatchId)
        use == memoriesToUseAutomatic(memories, nb)
        k1  == [k0 EXCEPT !.accessibleMemories = acc, !.nonRecentMemories = nr,
                          !.nonBatchMemories = nb, !.memoriesToUse = use]
    IN  /\ calls[c].pc = "idle"
        /\ UNCHANGED <<session, status>>
        /\ IF ~settings.enabled \/ ~settings.automaticMode \/ chatLen = 0
              \/ ~storeAvail \/ Len(memories) = 0
           THEN /\ injected' = safeSetExtensionPrompt("", sink)
                /\ calls' = [calls EXCEPT ![c] = clearAndReturn(k0)]
           ELSE IF povThrows
           THEN /\ UNCHANGED injected
                /\ calls' = [calls EXCEPT ![c] = updateError(k0, "pov")]
           ELSE IF Len(use) = 0
           THEN /\ injected' = safeSetExtensionPrompt("", sink)
                /\ calls' = [calls EXCEPT ![c] = clearAndReturn(k1)]
           ELSE /\ UNCHANGED injected
                /\ calls' = [calls EXCEPT ![c] =
                       [k1 EXCEPT !.pc = "selecting",
                                  !.primaryCharacter = Some(primaryCharacterOf(povCharacters, isGroupChat)),
                                  !.isGroupChat = isGroupChat,
                                  !.recentMessages = Some(recentMessagesOf(chatLen, pendingUserMessage)),
                                  !.selectCalls = @ + 1]]

UpdateResume(c, sel, relThrows, fmt, sink, injectThrows) ==
    LET k       == calls[c]
        primary == Val(k.primaryCharacter)
        text    == IF fmt = "text" THEN formattedText(c) ELSE ""
        k1 == [k EXCEPT !.relevantMemories = Some(sel)]
        k2 == [k1 EXCEPT !.formatArgs = Some(
                  [memories |-> sel.list, relationshipFor |-> primary,
                   emotion |-> emotionOf(primary),
                   headerName |-> headerNameOf(primary, k.isGroupChat)])]
        k3 == [k2 EXCEPT !.formattedContext = Some(text)]
        k4 == [k3 EXCEPT !.sinkWrites = Append(@, injectContext(text))]
    IN  /\ k.pc = "selecting"
        /\ k.kind = "update"
        /\ UNCHANGED <<session, status>>
        /\ IF sel.kind = "reject"
           THEN /\ UNCHANGED injected
                /\ calls' = [calls EXCEPT ![c] = updateError(k, "select")]
           ELSE IF noRelevantMemories(sel)
           THEN /\ injected' = safeSetExtensionPrompt("", sink)
                /\ calls' = [calls EXCEPT ![c] = clearAndReturn(k1)]
           ELSE IF relThrows
           THEN /\ UNCHANGED injected
                /\ calls' = [calls EXCEPT ![c] = updateError(k1, "relationship")]
           ELSE IF fmt = "throw"
           THEN /\ UNCHANGED injected
                /\ calls' = [calls EXCEPT ![c] = updateError(k2, "format")]
           ELSE IF fmt = "empty"
           THEN /\ UNCHANGED injected
                /\ calls' = [calls EXCEPT ![c] =
                       [k3 EXCEPT !.pc = "returned", !.result = Some(ResultUndefined)]]
           ELSE IF injectThrows
           THEN /\ injected' = safeSetExtensionPrompt(injectContext(text), sink)
                /\ calls' = [calls EXCEPT ![c] = updateError(k4, "inject")]
           ELSE /\ injected' = safeSetExtensionPrompt(injectContext(text), sink)
                /\ calls' = [calls EXCEPT ![c] =
                       [k4 EXCEPT !.pc = "returned", !.result = Some(ResultUndefined)]]

\* The caller has taken the settled promise: the call is forgotten.
Settle(c) ==
    /\ calls[c].pc \in {"returned", "threw"}
    /\ calls' = [calls EXCEPT ![c] = IdleCall]
    /\ UNCHANGED <<session, status, injected>>

----------------------------------------------------------------------------
(* The host: the session changes between calls *)

SetEnabled ==
    /\ settings' = [settings EXCEPT !.enabled = ~@]
    /\ UNCHANGED <<chatLen, storeAvail, memories, known, lastBatchId, povCharacters,
                   isGroupChat, status, injected, calls>>

SetAutomaticMode ==
    /\ settings' = [settings EXCEPT !.automaticMode = ~@]
    /\ UNCHANGED <<chatLen, storeAvail, memories, known, lastBatchId, povCharacters,
                   isGroupChat, status, injected, calls>>

\* The chat context comes and goes (getOpenVaultData returns null without one).
SetStoreAvailable ==
    /\ storeAvail' = ~storeAvail
    /\ UNCHANGED <<settings, chatLen, memories, known, lastBatchId, povCharacters,
                   isGroupChat, status, injected, calls>>

ChatGrows ==
    /\ \E n \in ChatLens : n > chatLen /\ chatLen' = n
    /\ UNCHANGED <<settings, storeAvail, memories, known, lastBatchId, povCharacters,
                   isGroupChat, status, injected, calls>>

\* Extraction appends a memory; it records the memory's batch as the last
\* batch, or (data written before batches were recorded) leaves it alone.
ExtractMemory ==
    /\ Len(memories) < MaxMem
    /\ \E m \in MemoryPool, recordBatch \in BOOLEAN :
          /\ m.id \notin {memories[i].id : i \in 1..Len(memories)}
          /\ memories' = Append(memories, m)
          /\ lastBatchId' = IF recordBatch /\ IsSome(m.batch_id) THEN m.batch_id ELSE lastBatchId
    /\ UNCHANGED <<settings, chatLen, storeAvail, known, povCharacters,
                   isGroupChat, status, injected, calls>>

\* A stored memory is disclosed to a character.
Disclose ==
    /\ KnownCount < MaxKnown
    /\ \E ch \in CharacterKeys, i \in 1..Len(memories) :
          /\ memories[i].id \notin known[ch]
          /\ known' = [known EXCEPT ![ch] = @ \cup {memories[i].id}]
    /\ UNCHANGED <<settings, chatLen, storeAvail, memories, lastBatchId, povCharacters,
                   isGroupChat, status, injected, calls>>

SetPOV ==
    /\ \E pov \in POVLists, group \in BOOLEAN :
          /\ <<pov, group>> # <<povCharacters, isGroupChat>>
          /\ povCharacters' = pov
          /\ isGroupChat' = group
    /\ UNCHANGED <<settings, chatLen, storeAvail, memories, known, lastBatchId,
                   status, injected, calls>>

----------------------------------------------------------------------------
(* The specification: one call at a time, the session changing between calls *)

Init ==
    /\ settings = [enabled |-> TRUE, automaticMode |-> TRUE]
    /\ chatLen = 0
    /\ storeAvail = TRUE
    /\ memories = <<>>
    /\ known = [ch \in CharacterKeys |-> {}]
    /\ lastBatchId = None
    /\ povCharacters = <<"Alice">>
    /\ isGroupChat = FALSE
    /\ status = "ready"
    /\ injected = ""
    /\ calls = [c \in CallIds |-> IdleCall]

\* One call at a time, with collaborators that answer: nothing throws, the
\* sink takes what it is given, no user message is pending.
Answers(candidates) == {sel \in Selections(candidates) : sel.kind # "reject"}

HostChatGrows == AllIdle /\ ChatGrows

HostExtractMemory == AllIdle /\ ExtractMemory

HostDisclose == AllIdle /\ Disclose

HostSetPOV == AllIdle /\ SetPOV

Retrieve == AllIdle /\ RetrieveStart("A", FALSE)

RetrieveSettles ==
    \E sel \in Answers(calls["A"].memoriesToUse), fmt \in Formats \ {"throw"} :
        RetrieveResume("A", sel, FALSE, fmt, "ok", FALSE)

Update == AllIdle /\ UpdateStart("A", "", FALSE, "ok")

UpdateSettles ==
    \E sel \in Answers(calls["A"].memoriesToUse), fmt \in Formats \ {"throw"} :
        UpdateResume("A", sel, FALSE, fmt, "ok", FALSE)

Settles == Settle("A")

Next ==
    \/ HostChatGrows
    \/ HostExtractMemory
    \/ HostDisclose
    \/ HostSetPOV
    \/ Retrieve
    \/ RetrieveSettles
    \/ Update
    \/ UpdateSettles
    \/ Settles

Spec == Init /\ [][Next]_vars

----------------------------------------------------------------------------
(* The specification with faults: the gates of the entry points are switched,
   and every collaborator can throw or refuse.  The store holds one memory,
   the chat just fills the recency window, and the POV may name a character
   the store has no state for. *)

FaultsSetEnabled == AllIdle /\ SetEnabled

FaultsSetAutomaticMode == AllIdle /\ SetAutomaticMode

FaultsSetStoreAvailable == AllIdle /\ SetStoreAvailable

FaultsChatGrows == AllIdle /\ chatLen = 0 /\ ChatGrows /\ chatLen' = RecentWindow

FaultsExtractMemory == AllIdle /\ Len(memories) = 0 /\ ExtractMemory

\* The POV lists of this specification: a character with an emotion, one with
\* a state and no emotion, one with no state at all.
FaultsPOVLists == { <<"Alice">>, <<"Bob">>, <<"Carol", "Alice">> }

FaultsSetPOV ==
    /\ AllIdle
    /\ \E pov \in FaultsPOVLists, group \in BOOLEAN :
          /\ <<pov, group>> # <<povCharacters, isGroupChat>>
          /\ povCharacters' = pov
          /\ isGroupChat' = group
    /\ UNCHANGED <<settings, chatLen, storeAvail, memories, known, lastBatchId,
                   status, injected, calls>>

FaultsRetrieve == \E povThrows \in BOOLEAN : AllIdle /\ RetrieveStart("A", povThrows)

FaultsRetrieveSettles ==
    \E sel \in Selections(calls["A"].memoriesToUse), relThrows \in BOOLEAN, fmt \in Formats,
       sink \in SinkOutcomes, injectThrows \in BOOLEAN :
        RetrieveResume("A", sel, relThrows, fmt, sink, injectThrows)

FaultsUpdate ==
    \E pending \in PendingMessages, povThrows \in BOOLEAN, sink \in SinkOutcomes :
        AllIdle /\ UpdateStart("A", pending, povThrows, sink)

FaultsUpdateSettles ==
    \E sel \in Selections(calls["A"].memoriesToUse), relThrows \in BOOLEAN, fmt \in Formats,
       sink \in SinkOutcomes, injectThrows \in BOOLEAN :
        UpdateResume("A", sel, relThrows, fmt, sink, injectThrows)

NextFaults ==
    \/ FaultsSetEnabled
    \/ FaultsSetAutomaticMode
    \/ FaultsSetStoreAvailable
    \/ FaultsChatGrows
    \/ FaultsExtractMemory
    \/ FaultsSetPOV
    \/ FaultsRetrieve
    \/ FaultsRetrieveSettles
    \/ FaultsUpdate
    \/ FaultsUpdateSettles
    \/ Settles

SpecFaults == Init /\ [][NextFaults]_vars

\* The selector settles: the promise retrieveAndInjectContext awaits is
\* eventually resolved or rejected, and the call resumes.
SpecFaultsLive == SpecFaults /\ WF_vars(FaultsRetrieveSettles)

----------------------------------------------------------------------------
(* The specification with overlap: nothing excludes a second call while a
   first one is suspended at its await.  Call A is invoked first and call B
   while A awaits the selector; the chat may grow in between.  The selector
   can reject; the formatter and the sink answer. *)

\* The chat grows until the second call is invoked.
OverlapChatGrows == calls["B"].pc = "idle" /\ ChatGrows

OverlapExtractMemory == AllIdle /\ Len(memories) = 0 /\ ExtractMemory

\* The order of invocation: A, then B while A is suspended.
InvokedInOrder(c) ==
    IF c = "A" THEN calls["B"].pc = "idle" ELSE calls["A"].pc = "selecting"

OverlapRetrieve == \E c \in CallIds : InvokedInOrder(c) /\ RetrieveStart(c, FALSE)

OverlapUpdate ==
    \E c \in CallIds, pending \in PendingMessages :
        InvokedInOrder(c) /\ UpdateStart(c, pending, FALSE, "ok")

OverlapRetrieveSettles ==
    \E c \in CallIds, fmt \in Formats \ {"throw"} :
        \E sel \in Selections(calls[c].memoriesToUse) :
            RetrieveResume(c, sel, FALSE, fmt, "ok", FALSE)

OverlapUpdateSettles ==
    \E c \in CallIds, fmt \in Formats \ {"throw"} :
        \E sel \in Selections(calls[c].memoriesToUse) :
            UpdateResume(c, sel, FALSE, fmt, "ok", FALSE)

\* The callers have taken the settled promises: the calls are forgotten.
OverlapSettles ==
    /\ calls["A"].pc \in {"returned", "threw"}
    /\ calls["B"].pc \in {"idle", "returned", "threw"}
    /\ calls' = [c \in CallIds |-> IdleCall]
    /\ UNCHANGED <<session, status, injected>>

NextOverlap ==
    \/ OverlapChatGrows
    \/ OverlapExtractMemory
    \/ OverlapRetrieve
    \/ OverlapUpdate
    \/ OverlapRetrieveSettles
    \/ OverlapUpdateSettles
    \/ OverlapSettles

SpecOverlap == Init /\ [][NextOverlap]_vars

----------------------------------------------------------------------------
(* What the properties below speak of *)

\* The gates of the entry points (the session does not change during a call).
GatesPassOnDemand == settings.enabled /\ chatLen > 0 /\ storeAvail

GatesPassAutomatic == GatesPassOnDemand /\ settings.automaticMode

\* The call got past its gates with a non-empty store and resolved the POV:
\* it computed its filters.
Filtered(k) ==
    /\ k.pc # "idle"
    /\ k.exception # Some("pov")
    /\ Len(memories) > 0
    /\ IF k.kind = "retrieve" THEN GatesPassOnDemand ELSE GatesPassAutomatic

\* Names that differ in case only.
CaseClasses == { {"Alice", "ALICE", "alice"}, {"Bob", "BOB", "bob"} }

SameNameIgnoringCase(a, b) == \E cls \in CaseClasses : a \in cls /\ b \in cls

Entries(o) == IF IsSome(o) THEN Range(Val(o)) ELSE {}

POVWitnessed(m) ==
    \E p \in Range(povCharacters), w \in Entries(m.witnesses) : SameNameIgnoringCase(p, w)

POVInvolved(m) ==
    \E p \in Range(povCharacters), x \in Entries(m.characters_involved) :
        SameNameIgnoringCase(p, x)

POVKnows(m) == \E p \in Range(povCharacters) \cap CharacterKeys : m.id \in known[p]

VisibleToPOV(m) == POVWitnessed(m) \/ (~m.is_secret /\ POVInvolved(m)) \/ POVKnows(m)

\* sub holds entries of seq, in the order seq holds them.
InOrderOf(sub, seq) ==
    \E f \in [1..Len(sub) -> 1..Len(seq)] :
        /\ \A i \in 1..Len(sub) : seq[f[i]] = sub[i]
        /\ \A i, j \in 1..Len(sub) : i < j => f[i] < f[j]

----------------------------------------------------------------------------
\* C1: in both entry points a memory of the store is in the accessible set
\* if and only if a POV name equals, ignoring case, one of its witnesses, or
\* it is not secret and a POV name equals, ignoring case, one of its
\* characters_involved, or its id is in the known_events of a POV character;
\* the accessible set keeps the order of the store.
C1_AccessibleIffVisible ==
    \A c \in CallIds :
        Filtered(calls[c]) =>
            /\ \A i \in 1..Len(memories) :
                  (memories[i] \in Range(calls[c].accessibleMemories)) <=> VisibleToPOV(memories[i])
            /\ Range(calls[c].accessibleMemories) \subseteq Range(memories)
            /\ InOrderOf(calls[c].accessibleMemories, memories)

\* An automatic update whose filter let through the second memory, witnessed
\* under a name in another case, and rejected the first, a secret one that
\* involves a POV character.
C1_Witness ==
    \E c \in CallIds :
        /\ Filtered(calls[c])
        /\ calls[c].kind = "update"
        /\ Len(memories) = 2
        /\ calls[c].accessibleMemories = <<memories[2]>>
        /\ memories[1].is_secret /\ POVInvolved(memories[1])
        /\ POVWitnessed(memories[2])
        /\ Entries(memories[2].witnesses) \cap Range(povCharacters) = {}

----------------------------------------------------------------------------
\* C2 (as claimed): every secret memory handed to the selector as a candidate
\* has a POV character among its witnesses or its id in a POV character's
\* known_events, whatever fallback was taken.
C2_SecretCandidatesAreWitnessedOrKnown ==
    \A c \in CallIds :
        (Filtered(calls[c]) /\ calls[c].selectCalls > 0) =>
            \A i \in 1..Len(calls[c].memoriesToUse) :
                calls[c].memoriesToUse[i].is_secret =>
                    (POVWitnessed(calls[c].memoriesToUse[i]) \/ POVKnows(calls[c].memoriesToUse[i]))

\* The set the fallback rule of the entry point looks at.
FilteredSet(k) == IF k.kind = "retrieve" THEN k.accessibleMemories ELSE k.nonBatchMemories

\* C2 (amended): every secret memory in the accessible set has a POV
\* character among its witnesses or its id in a POV character's known_events,
\* and a secret candidate handed to the selector that has neither is there
\* only because the filtered set was empty and the fallback made the whole
\* store the candidates.
C2_SecretVisibleOnlyWitnessedOrKnownOrFallback ==
    \A c \in CallIds :
        Filtered(calls[c]) =>
            /\ \A i \in 1..Len(calls[c].accessibleMemories) :
                  calls[c].accessibleMemories[i].is_secret =>
                      (POVWitnessed(calls[c].accessibleMemories[i])
                          \/ POVKnows(calls[c].accessibleMemories[i]))
            /\ \A i \in 1..Len(calls[c].memoriesToUse) :
                  (/\ calls[c].memoriesToUse[i].is_secret
                   /\ ~POVWitnessed(calls[c].memoriesToUse[i])
                   /\ ~POVKnows(calls[c].memoriesToUse[i]))
                  => (Len(FilteredSet(calls[c])) = 0 /\ calls[c].memoriesToUse = memories)

\* A call whose candidates are its non-empty accessible set, which left out a
\* secret memory of the store that involves a POV character.
C2_Witness ==
    \E c \in CallIds :
        /\ Filtered(calls[c])
        /\ calls[c].selectCalls = 1
        /\ Len(calls[c].accessibleMemories) > 0
        /\ calls[c].memoriesToUse = calls[c].accessibleMemories
        /\ \E i \in 1..Len(memories) :
              /\ memories[i].is_secret
              /\ POVInvolved(memories[i])
              /\ memories[i] \notin Range(calls[c].memoriesToUse)

----------------------------------------------------------------------------
\* C3: in both entry points, when the gates pass and the store holds a
\* memory, the selector is invoked exactly once, with a non-empty candidate
\* set: no call ends before selection.
C3_SelectorAlwaysGetsCandidates ==
    \A c \in CallIds :
        Filtered(calls[c]) =>
            /\ calls[c].selectCalls = 1
            /\ Len(calls[c].memoriesToUse) > 0

\* An automatic update whose visibility filter let nothing through and that
\* invoked the selector all the same.
C3_Witness ==
    \E c \in CallIds :
        /\ Filtered(calls[c])
        /\ calls[c].kind = "update"
        /\ Len(calls[c].accessibleMemories) = 0
        /\ calls[c].selectCalls = 1
        /\ calls[c].pc = "returned"

----------------------------------------------------------------------------
\* C4: on demand, the candidates handed to the selector are the whole store
\* when the visibility filter lets nothing through, and exactly the
\* accessible set, in its order, when that set is not empty.
C4_OnDemandCandidates ==
    \A c \in CallIds :
        (Filtered(calls[c]) /\ calls[c].kind = "retrieve") =>
            /\ calls[c].selectCalls = 1
            /\ calls[c].memoriesToUse =
                  IF Len(calls[c].accessibleMemories) = 0 THEN memories
                  ELSE calls[c].accessibleMemories

\* An on-demand call that fell back to the whole store of two memories.
C4_Witness ==
    \E c \in CallIds :
        /\ Filtered(calls[c])
        /\ calls[c].kind = "retrieve"
        /\ Len(calls[c].accessibleMemories) = 0
        /\ Len(memories) = 2
        /\ calls[c].memoriesToUse = memories
        /\ calls[c].selectCalls = 1

----------------------------------------------------------------------------
\* The message ids of a memory, and the indices of the last ten chat messages.
MessageIds(m) == Entries(m.message_ids)

LastTenIndices == {i \in 0..(chatLen - 1) : chatLen - i <= 10}

AllSourcesRecent(m) == MessageIds(m) # {} /\ MessageIds(m) \subseteq LastTenIndices

\* The recency pass emptied a non-empty accessible set, every memory of
\* which has all its message ids in the window.
RecencyEmptiedAccessible(k) ==
    /\ Filtered(k)
    /\ k.kind = "update"
    /\ Len(k.accessibleMemories) > 0
    /\ \A i \in 1..Len(k.accessibleMemories) : AllSourcesRecent(k.accessibleMemories[i])

\* C5 (as claimed): in an automatic update, when every accessible memory has
\* all its message_ids in the last-10-message window, the candidates handed
\* to the selector are the accessible set.
C5_RecencyFallbackIsAccessibleSet ==
    \A c \in CallIds :
        RecencyEmptiedAccessible(calls[c]) =>
            /\ calls[c].selectCalls = 1
            /\ calls[c].memoriesToUse = calls[c].accessibleMemories

\* C5 (amended): in that case the candidates handed to the selector are the
\* whole store, the memories the visibility filter rejected included, and
\* selection proceeds.
C5_RecencyFallbackIsWholeStore ==
    \A c \in CallIds :
        RecencyEmptiedAccessible(calls[c]) =>
            /\ Len(calls[c].nonRecentMemories) = 0
            /\ calls[c].selectCalls = 1
            /\ calls[c].memoriesToUse = memories

\* An automatic update whose accessible memory is recent, in a store that
\* also holds a memory the POV may not see: both are candidates.
C5_Witness ==
    \E c \in CallIds :
        /\ RecencyEmptiedAccessible(calls[c])
        /\ Len(memories) = 2
        /\ Len(calls[c].accessibleMemories) = 1
        /\ calls[c].memoriesToUse = memories
        /\ calls[c].relevantMemories = Some([kind |-> "list", list |-> memories])

----------------------------------------------------------------------------
\* C6: in an automatic update, if the set left by the visibility, recency and
\* batch filters is empty, the candidates handed to the selector are the
\* whole store, the memories the visibility filter rejected included;
\* otherwise they are exactly that filtered set.
C6_AutomaticCandidates ==
    \A c \in CallIds :
        (Filtered(calls[c]) /\ calls[c].kind = "update") =>
            /\ calls[c].selectCalls = 1
            /\ calls[c].memoriesToUse =
                  IF Len(calls[c].nonBatchMemories) = 0 THEN memories
                  ELSE calls[c].nonBatchMemories

\* An automatic update whose batch filter removed the last accessible memory
\* and whose candidates include a memory that is not visible to the POV.
C6_Witness ==
    \E c \in CallIds :
        /\ Filtered(calls[c])
        /\ calls[c].kind = "update"
        /\ Len(calls[c].nonRecentMemories) > 0
        /\ Len(calls[c].nonBatchMemories) = 0
        /\ calls[c].memoriesToUse = memories
        /\ \E i \in 1..Len(memories) : ~VisibleToPOV(memories[i])

----------------------------------------------------------------------------
\* C7: the recency pass of an automatic update removes an accessible memory
\* if and only if its message_ids is non-empty and every id in it is among
\* the last 10 indices of the chat; a memory with an id outside the window,
\* or with missing or empty message_ids, is kept, and the order is kept.
C7_RecencyRemovesIffAllRecent ==
    \A c \in CallIds :
        (Filtered(calls[c]) /\ calls[c].kind = "update") =>
            /\ \A i \in 1..Len(calls[c].accessibleMemories) :
                  (calls[c].accessibleMemories[i] \notin Range(calls[c].nonRecentMemories))
                      <=> AllSourcesRecent(calls[c].accessibleMemories[i])
            /\ Range(calls[c].nonRecentMemories) \subseteq Range(calls[c].accessibleMemories)
            /\ InOrderOf(calls[c].nonRecentMemories, calls[c].accessibleMemories)

\* An automatic update over a chat of more than ten messages that kept a
\* memory with one message id in the window and one outside it, and dropped
\* a memory with all ids in the window.
C7_Witness ==
    \E c \in CallIds :
        /\ Filtered(calls[c])
        /\ calls[c].kind = "update"
        /\ chatLen > 10
        /\ \E i \in 1..Len(calls[c].nonRecentMemories) :
              /\ MessageIds(calls[c].nonRecentMemories[i]) \cap LastTenIndices # {}
              /\ MessageIds(calls[c].nonRecentMemories[i]) \ LastTenIndices # {}
        /\ \E i \in 1..Len(calls[c].accessibleMemories) :
              calls[c].accessibleMemories[i] \notin Range(calls[c].nonRecentMemories)

----------------------------------------------------------------------------
\* C8: the batch pass of an automatic update removes a memory if and only if
\* lastBatchId is set and the memory's batch_id equals it; with lastBatchId
\* not set it removes nothing.
C8_BatchRemovesIffLastBatch ==
    \A c \in CallIds :
        (Filtered(calls[c]) /\ calls[c].kind = "update") =>
            /\ \A i \in 1..Len(calls[c].nonRecentMemories) :
                  (calls[c].nonRecentMemories[i] \notin Range(calls[c].nonBatchMemories))
                      <=> (/\ lastBatchId # None
                           /\ calls[c].nonRecentMemories[i].batch_id # None
                           /\ Val(calls[c].nonRecentMemories[i].batch_id) = Val(lastBatchId))
            /\ Range(calls[c].nonBatchMemories) \subseteq Range(calls[c].nonRecentMemories)
            /\ InOrderOf(calls[c].nonBatchMemories, calls[c].nonRecentMemories)
            /\ lastBatchId = None => calls[c].nonBatchMemories = calls[c].nonRecentMemories

\* An automatic update with lastBatchId not set that kept, through the batch
\* pass, a memory with a batch_id and one without.
C8_Witness ==
    \E c \in CallIds :
        /\ Filtered(calls[c])
        /\ calls[c].kind = "update"
        /\ lastBatchId = None
        /\ Len(calls[c].nonBatchMemories) = 2
        /\ \E i, j \in 1..2 :
              /\ calls[c].nonBatchMemories[i].batch_id = None
              /\ calls[c].nonBatchMemories[j].batch_id # None

----------------------------------------------------------------------------
\* C9: in retrieveAndInjectContext, once the status is 'retrieving', an
\* exception raised by POV resolution, relevance selection, relationship
\* lookup, formatting or injection is caught: the status is set to 'error',
\* the call resolves to null and nothing is thrown to the caller.
C9_RetrieveCatchesExceptions ==
    \A c \in CallIds :
        calls[c].kind = "retrieve" =>
            /\ calls[c].pc # "threw"
            /\ IsSome(calls[c].exception) =>
                  /\ calls[c].pc = "returned"
                  /\ calls[c].result = Some(ResultNull)
                  /\ calls[c].statusWrites = <<"retrieving", "error">>
                  /\ status = "error"

\* An on-demand call whose injection block threw after the sink took the text.
C9_Witness ==
    \E c \in CallIds :
        /\ calls[c].kind = "retrieve"
        /\ calls[c].exception = Some("inject")
        /\ calls[c].pc = "returned"
        /\ injected = formattedText(c)
        /\ status = "error"

----------------------------------------------------------------------------
\* C10: updateInjection never throws to its caller: when the selector, the
\* formatter or the injection raises, the exception is caught, the status is
\* reported as 'error' and the call resolves to a no-op.
C10_UpdateNeverThrows ==
    \A c \in CallIds :
        (/\ calls[c].kind = "update"
         /\ calls[c].exception \in {Some("select"), Some("format"), Some("inject")})
        => /\ calls[c].pc # "threw"
           /\ calls[c].pc = "returned"
           /\ status = "error"

----------------------------------------------------------------------------
\* C11: when retrieveAndInjectContext is called with the extension disabled,
\* the chat missing or empty, the store not available or the memory
\* collection empty, the call returns null at once without invoking the
\* injection sink, the selector, the notification or the status observable:
\* the injected text and the status stay as they were.
C11_ShortCircuitTouchesNothing ==
    [][\A c \in CallIds :
          (/\ calls[c].pc = "idle"
           /\ calls'[c].kind = "retrieve"
           /\ (~settings.enabled \/ chatLen = 0 \/ ~storeAvail \/ Len(memories) = 0))
          => /\ calls'[c].pc = "returned"
             /\ calls'[c].result = Some(ResultNull)
             /\ calls'[c].sinkWrites = <<>>
             /\ calls'[c].selectCalls = 0
             /\ calls'[c].toasts = 0
             /\ calls'[c].statusWrites = <<>>
             /\ injected' = injected
             /\ status' = status]_vars

\* An on-demand call made while disabled returned null; the text an earlier
\* call injected and the 'error' status that call left are still there.
C11_Witness ==
    \E c \in CallIds :
        /\ calls[c].kind = "retrieve"
        /\ calls[c].pc = "returned"
        /\ ~settings.enabled
        /\ calls[c].result = Some(ResultNull)
        /\ calls[c].statusWrites = <<>>
        /\ injected # ""
        /\ status = "error"

----------------------------------------------------------------------------
\* C12: every short-circuit exit of updateInjection clears the injection.
\* Called with the extension disabled, automatic mode off, the chat missing
\* or empty, the store not available or the memory collection empty, the
\* call hands the empty string to the injection sink exactly once and
\* returns, without invoking the selector; resumed with a selection that is
\* null or empty, it hands the empty string to the sink exactly once and
\* returns.
C12_UpdateShortCircuitClears ==
    [][\A c \in CallIds :
          /\ (/\ calls[c].pc = "idle"
              /\ calls'[c].kind = "update"
              /\ (\/ ~settings.enabled \/ ~settings.automaticMode \/ chatLen = 0
                  \/ ~storeAvail \/ Len(memories) = 0))
             => /\ calls'[c].pc = "returned"
                /\ calls'[c].sinkWrites = <<"">>
                /\ calls'[c].selectCalls = 0
          /\ (/\ calls[c].pc = "selecting"
              /\ calls[c].kind = "update"
              /\ IsSome(calls'[c].relevantMemories)
              /\ Val(calls'[c].relevantMemories).kind # "reject"
              /\ Val(calls'[c].relevantMemories).list = <<>>)
             => /\ calls'[c].pc = "returned"
                /\ calls'[c].sinkWrites = <<"">>
                /\ calls'[c].selectCalls = 1]_vars

\* An automatic update whose selector resolved to an empty list handed the
\* empty string to the sink, which holds no text.
C12_Witness ==
    \E c \in CallIds :
        /\ calls[c].kind = "update"
        /\ calls[c].pc = "returned"
        /\ calls[c].relevantMemories = Some([kind |-> "list", list |-> <<>>])
        /\ calls[c].sinkWrites = <<"">>
        /\ injected = ""
        /\ status = "error"

----------------------------------------------------------------------------
\* C13: in retrieveAndInjectContext, when the selector resolves to null or to
\* an empty sequence, the call returns null with the status set to 'ready',
\* never to 'error', and invokes neither the formatter, the injection sink
\* nor the success notification.
C13_EmptySelectionIsNotAnError ==
    [][\A c \in CallIds :
          (/\ calls[c].pc = "selecting"
           /\ calls[c].kind = "retrieve"
           /\ IsSome(calls'[c].relevantMemories)
           /\ Val(calls'[c].relevantMemories).kind # "reject"
           /\ Val(calls'[c].relevantMemories).list = <<>>)
          => /\ calls'[c].pc = "returned"
             /\ calls'[c].result = Some(ResultNull)
             /\ calls'[c].statusWrites = <<"retrieving", "ready">>
             /\ calls'[c].exception = None
             /\ status' = "ready"
             /\ calls'[c].formatArgs = None
             /\ calls'[c].formattedContext = None
             /\ calls'[c].sinkWrites = <<>>
             /\ calls'[c].toasts = 0
             /\ injected' = injected]_vars

\* An on-demand call whose selector resolved to an empty list returned null
\* with status 'ready'; the text an earlier call injected is still there.
C13_Witness ==
    \E c \in CallIds :
        /\ calls[c].kind = "retrieve"
        /\ calls[c].pc = "returned"
        /\ calls[c].relevantMemories = Some([kind |-> "list", list |-> <<>>])
        /\ calls[c].result = Some(ResultNull)
        /\ status = "ready"
        /\ injected # ""

----------------------------------------------------------------------------
\* The last value a call passed to setStatus.
LastStatusWrite(k) == k.statusWrites[Len(k.statusWrites)]

\* C14: with one call in flight, every retrieveAndInjectContext call that set
\* the status to 'retrieving' has set it to 'ready' or 'error' when it has
\* returned, on every path; the status reads 'retrieving' only while a call
\* is suspended in selection, and once the selector settles it no longer
\* does.
C14_RetrievingIsResolved ==
    /\ [](\A c \in CallIds :
             (calls[c].kind = "retrieve" /\ calls[c].pc \in {"returned", "threw"}
                  /\ calls[c].statusWrites # <<>>)
             => /\ calls[c].statusWrites[1] = "retrieving"
                /\ Len(calls[c].statusWrites) = 2
                /\ LastStatusWrite(calls[c]) \in {"ready", "error"}
                /\ status = LastStatusWrite(calls[c]))
    /\ [](status = "retrieving" =>
             \E c \in CallIds : calls[c].kind = "retrieve" /\ calls[c].pc = "selecting")
    /\ ((status = "retrieving") ~> (status \in {"ready", "error"}))

\* An on-demand call returned a result with empty formatted text: it set the
\* status to 'retrieving' and then to 'ready'.
C14_Witness ==
    \E c \in CallIds :
        /\ calls[c].kind = "retrieve"
        /\ calls[c].pc = "returned"
        /\ calls[c].formattedContext = Some("")
        /\ calls[c].statusWrites = <<"retrieving", "ready">>
        /\ status = "ready"

----------------------------------------------------------------------------
\* C15: after an updateInjection call has returned normally, the injection
\* sink holds either the text that call formatted or the empty string: text
\* injected by an earlier call does not survive a completed automatic
\* update, in particular not when the formatter returned empty text for a
\* non-empty selection.
C15_CompletedUpdateLeavesOwnTextOrNothing ==
    \A c \in CallIds :
        (calls[c].kind = "update" /\ calls[c].pc = "returned")
        => \/ injected = ""
           \/ /\ IsSome(calls[c].formattedContext)
              /\ Val(calls[c].formattedContext) # ""
              /\ injected = Val(calls[c].formattedContext)

----------------------------------------------------------------------------
\* The other call.
Other(c) == IF c = "A" THEN "B" ELSE "A"

\* C16: on-demand calls are not mutually excluded.  When two
\* retrieveAndInjectContext calls overlap, each call that finishes sets the
\* status to its own outcome, 'ready' or 'error', whether or not the other
\* call is still suspended in relevance selection, so the status can read
\* 'ready' or 'error' while a call is suspended, and the final status is the
\* one written by the call that finishes last.
C16_LastFinisherSetsStatus ==
    [][\A c \in CallIds :
          (/\ calls[c].kind = "retrieve"
           /\ calls[c].pc = "selecting"
           /\ calls'[c].pc # "selecting"
           /\ calls[Other(c)].kind = "retrieve")
          => /\ calls'[c].pc = "returned"
             /\ LastStatusWrite(calls'[c]) \in {"ready", "error"}
             /\ status' = LastStatusWrite(calls'[c])
             /\ calls'[Other(c)] = calls[Other(c)]
             /\ (calls[Other(c)].pc = "returned" /\ calls[Other(c)].statusWrites # <<>>)
                    => (status = LastStatusWrite(calls[Other(c)]))]_vars

\* Two on-demand calls overlapped: the second one has finished in error and
\* the status reads 'error' while the first is still suspended in selection.
C16_Witness ==
    /\ calls["A"].kind = "retrieve"
    /\ calls["A"].pc = "selecting"
    /\ calls["B"].kind = "retrieve"
    /\ calls["B"].pc = "returned"
    /\ calls["B"].statusWrites = <<"retrieving", "error">>
    /\ status = "error"

----------------------------------------------------------------------------
\* What a resumed updateInjection call is to hand to the sink, given the
\* selection and the formatted text it got: '' for no selection, nothing for
\* an empty text, the text otherwise.
SinkWritesExpected(k) ==
    IF Val(k.relevantMemories).list = <<>> THEN <<"">>
    ELSE IF k.formattedContext = Some("") THEN <<>>
    ELSE <<Val(k.formattedContext)>>

\* C17: when two updateInjection calls overlap, the injection sink is left
\* with what the call whose selection resolves last hands to it, not with
\* what the call invoked last produced: a call that resumes writes its own
\* text, or clears, over whatever the other call has injected, even if it
\* was invoked first, from an older chat and without the newer pending user
\* message.
C17_LastResolvedWritesTheSink ==
    [][\A c \in CallIds :
          (/\ calls[c].kind = "update"
           /\ calls[c].pc = "selecting"
           /\ calls'[c].pc = "returned"
           /\ calls[Other(c)].kind = "update")
          => /\ calls'[c].sinkWrites = SinkWritesExpected(calls'[c])
             /\ injected' = IF calls'[c].sinkWrites = <<>> THEN injected
                            ELSE calls'[c].sinkWrites[1]
             /\ calls'[Other(c)] = calls[Other(c)]]_vars

\* Two automatic updates overlapped.  The one invoked last, with a longer
\* chat and a pending user message, injected its text; the one invoked first
\* resumed after it, and the sink holds the text of the call invoked first.
C17_Witness ==
    /\ calls["A"].kind = "update" /\ calls["A"].pc = "returned"
    /\ calls["B"].kind = "update" /\ calls["B"].pc = "returned"
    /\ Val(calls["A"].recentMessages).chat < Val(calls["B"].recentMessages).chat
    /\ Val(calls["A"].recentMessages).pending = ""
    /\ Val(calls["B"].recentMessages).pending = "hello"
    /\ calls["B"].sinkWrites = <<formattedText("B")>>
    /\ calls["A"].sinkWrites = <<formattedText("A")>>
    /\ injected = formattedText("A")

----------------------------------------------------------------------------
\* The emotion recorded for a character, 'neutral' for a character with no
\* state or no emotion.
EmotionOrNeutral(name) ==
    CASE name = "Alice" -> "happy"
      [] name = "Bob"   -> "neutral"
      [] OTHER          -> "neutral"

\* C18: in both entry points, in group mode the primary character handed to
\* the selector and used for the relationship and emotion lookups is the
\* first POV character and the header label handed to the formatter is that
\* character's name; in narrator mode the primary character is name2 and the
\* header label is "Scene"; the emotion handed to the formatter is the
\* primary character's current_emotion, or "neutral" when the character has
\* no state or no emotion.
C18_PrimaryCharacterAndHeader ==
    \A c \in CallIds :
        LET k == calls[c]
            primary == IF isGroupChat THEN povCharacters[1] ELSE "Alice"
        IN  /\ k.selectCalls > 0 => k.primaryCharacter = Some(primary)
            /\ IsSome(k.formatArgs) =>
                  /\ Val(k.formatArgs).relationshipFor = primary
                  /\ Val(k.formatArgs).emotion = EmotionOrNeutral(primary)
                  /\ Val(k.formatArgs).headerName =
                        IF isGroupChat THEN povCharacters[1] ELSE "Scene"

\* An automatic update in group mode whose first POV character has no
\* character state: the header is that character's name, the emotion
\* 'neutral'.
C18_Witness ==
    \E c \in CallIds :
        /\ calls[c].kind = "update"
        /\ calls[c].pc = "returned"
        /\ isGroupChat
        /\ povCharacters[1] \notin CharacterKeys
        /\ IsSome(calls[c].formatArgs)
        /\ Val(calls[c].formatArgs).headerName = povCharacters[1]
        /\ Val(calls[c].formatArgs).emotion = "neutral"
        /\ povCharacters[1] # name2

----------------------------------------------------------------------------
\* C19: no path of updateInjection shows a notification or writes the status
\* observable: every step of an automatic update, successful injections and
\* short-circuits included, leaves the status as it was and records no
\* notification and no status write; the status changes only in a step of
\* retrieveAndInjectContext.
C19_UpdateIsSilent ==
    [][/\ \A c \in CallIds :
             (calls'[c] # calls[c] /\ calls'[c].kind = "update")
             => /\ status' = status
                /\ calls'[c].toasts = 0
                /\ calls'[c].statusWrites = <<>>
       /\ status' # status =>
             \E c \in CallIds : calls'[c] # calls[c] /\ calls'[c].kind = "retrieve"]_vars

\* An automatic update injected its text without a notification or a status
\* write; the status still reads the 'error' an earlier on-demand call left.
C19_Witness ==
    \E c \in CallIds :
        /\ calls[c].kind = "update"
        /\ calls[c].pc = "returned"
        /\ calls[c].sinkWrites = <<formattedText(c)>>
        /\ calls[c].toasts = 0
        /\ calls[c].statusWrites = <<>>
        /\ status = "error"

----------------------------------------------------------------------------
\* C20: in retrieveAndInjectContext, when the selector resolves to a
\* non-empty selection and nothing throws, the call returns a non-null result
\* holding exactly the selection and the formatted text, with status
\* 'ready'; the injection sink is invoked and the success notification shown
\* if and only if the formatted text is not empty, so a result with an empty
\* context leaves the text injected before in place.
C20_ResultAndInjection ==
    [][\A c \in CallIds :
          (/\ calls[c].kind = "retrieve"
           /\ calls[c].pc = "selecting"
           /\ IsSome(calls'[c].relevantMemories)
           /\ Val(calls'[c].relevantMemories).list # <<>>
           /\ calls'[c].exception = None)
          => /\ calls'[c].pc = "returned"
             /\ IsSome(calls'[c].formattedContext)
             /\ calls'[c].result =
                   Some([tag |-> "value",
                         memories |-> Val(calls'[c].relevantMemories).list,
                         context |-> Val(calls'[c].formattedContext)])
             /\ calls'[c].statusWrites = <<"retrieving", "ready">>
             /\ status' = "ready"
             /\ IF Val(calls'[c].formattedContext) # ""
                THEN /\ calls'[c].sinkWrites = <<Val(calls'[c].formattedContext)>>
                     /\ calls'[c].toasts = 1
                ELSE /\ calls'[c].sinkWrites = <<>>
                     /\ calls'[c].toasts = 0
                     /\ injected' = injected]_vars

\* An on-demand call returned its selection with an empty context, without
\* invoking the sink or the notification: the sink still holds the text an
\* earlier call injected.
C20_Witness ==
    \E c \in CallIds :
        /\ calls[c].kind = "retrieve"
        /\ calls[c].pc = "returned"
        /\ IsSome(calls[c].result)
        /\ Val(calls[c].result).tag = "value"
        /\ Val(calls[c].result).memories # <<>>
        /\ Val(calls[c].result).context = ""
        /\ calls[c].sinkWrites = <<>>
        /\ calls[c].toasts = 0
        /\ injected # ""

====
